---- MODULE Spec2Model ----
(***************************************************************************)
(* Model of src/export_posts.py: the export of an account's posts.         *)
(*                                                                         *)
(* The script resolves a handle to a DID, fetches the DID document, picks  *)
(* the PDS endpoint out of it, pages through the post collection with a    *)
(* one-time fallback to the default client, sorts and writes the archive,   *)
(* and offers to trim it.  The script's entry point calls                  *)
(* export_posts_to_json twice (lines 300 and 303); `call` numbers the      *)
(* execution in progress and the variables that model the function's       *)
(* locals are re-initialised on entry.                                     *)
(*                                                                         *)
(* Absent values: a string-valued local that is None or "" is the empty    *)
(* sequence (the code only tests such values for truthiness), an absent    *)
(* cursor is 0.                                                            *)
(***************************************************************************)
EXTENDS Integers, Sequences, FiniteSets, TLC

\* ---------------------------------------------------------------- bounds
\* pages the hosting server holds: at most MaxPages responses carry a cursor
MaxPages == 2
\* records in one page response
MaxRecs == 2
\* entries in a DID document's service list
MaxServices == 2
\* posts in an archive handed to the trimmer taken alone (from 11 posts on a
\* count can ask for more posts to go than there are)
MaxPosts == 11

\* ------------------------------------------------------- program constants
TOKEN_LIMIT == 950000

\* ---------------------------------------------------------- input domains
\* opaque cursors a response can carry (0 is "no cursor")
Cursors == 1..2
\* created_at values: the records of one page share theirs (ties happen within
\* a page), pages differ (the sort has something to reorder)
Times == 1..2
\* DIDs the resolver can return, as <<"did", method, id>>
DIDs == { <<"did", "plc", "a">>, <<"did", "web", "a">>, <<"did", "key", "a">> }
\* serviceEndpoint strings, as sequences of characters
Urls == { <<>>, <<"/">>, <<"u">>, <<"u", "/">>, <<"u", "/", "/">> }
\* service ids, as sequences of fragments
Ids == { <<>>, <<"did", "#atproto_pds">>, <<"#atproto_pds", "x">> }
\* service types
Types == { "AtprotoPersonalDataServer", "Other" }
\* answers of the token estimator (-1 is None: the estimator is unavailable)
TokenCounts == { -1, 950000, 3000000 }
\* token counts for the trimmer taken alone: up to counts that ask for more
\* posts to go than the archive holds
TrimTokenCounts == { -1, 950000, 950001, 1000000, 3000000, 20000000, 190000000 }
\* the operator's answers at the prompt, after strip().lower()
Choices == { "y", "yes", "n", "no", "maybe" }

VARIABLES
    pc,             \* position in the script
    argc,           \* TRUE when a handle argument was given
    call,           \* which execution of export_posts_to_json is in progress (0: none yet)
    repo_did,       \* the resolved DID, <<>> before resolution
    did_doc,        \* the DID document fetched by fetch_did_document
    pds_endpoint,   \* the discovered endpoint, <<>> when None
    client,         \* "none" before the choice, "pds" or "default"
    cursor,         \* cursor of the next page request, 0 when None
    posts_fetched,  \* the counter of line 200
    all_posts,      \* the accumulated posts
    written,        \* TRUE once this execution has written its output file
    archive,        \* content of this execution's output file
    hist,           \* this execution's page requests, one event per request
    switches,       \* times this execution ran the fallback branch
    resolves,       \* resolve_handle calls of this execution
    docFetches,     \* identity-document HTTP requests of this execution
    token_count,    \* the estimator's answer, -1 when None
    posts_to_keep,  \* the trimmer's posts_to_keep
    trimmed,        \* the trimmed file: [written, content]
    final,          \* what the execution returned: "none", "full" or "trimmed"
    choice,         \* the last answer read at the prompt, "" before any
    nwrites         \* archive files written by the process

vars == << pc, argc, call, repo_did, did_doc, pds_endpoint, client, cursor,
           posts_fetched, all_posts, written, archive, hist,
           switches, resolves, docFetches, token_count, posts_to_keep,
           trimmed, final, choice, nwrites >>

\* ----------------------------------------------------------------- helpers
Last(s) == s[Len(s)]

\* str.endswith
EndsWith(s, suf) ==
    /\ Len(s) >= Len(suf)
    /\ SubSeq(s, Len(s) - Len(suf) + 1, Len(s)) = suf

\* str.rstrip("/"): every trailing slash goes
RECURSIVE RStrip(_)
RStrip(s) ==
    IF s = <<>> THEN <<>>
    ELSE IF Last(s) = "/" THEN RStrip(SubSeq(s, 1, Len(s) - 1))
    ELSE s

\* ----------------------------------------------------------- DID documents
\* a serviceEndpoint value: a string, or something else (absent, a map, a list)
Endpoints == { [str |-> TRUE, val |-> u] : u \in Urls } \cup { [str |-> FALSE, val |-> <<>>] }

\* a service entry: a JSON object, or some other JSON value (a string, null)
DictEntries == [ dict : {TRUE}, id : Ids, type : Types, ep : Endpoints ]
NonDictEntry == [ dict |-> FALSE, id |-> <<>>, type |-> "Other", ep |-> [str |-> FALSE, val |-> <<>>] ]
Entries == DictEntries \cup { NonDictEntry }

\* no document: fetch_did_document returned None
NoDoc == [ some |-> FALSE, service |-> <<>>, services |-> <<>> ]

\* a document whose service list l is under the key "service" or "services"
Doc(key, l) ==
    [ some |-> TRUE,
      service |-> IF key = "service" THEN l ELSE <<>>,
      services |-> IF key = "services" THEN l ELSE <<>> ]

\* the entries the export runs draw from: one of each outcome of the scan
SomeEntries ==
    { [ dict |-> TRUE, id |-> <<"did", "#atproto_pds">>,
        type |-> "AtprotoPersonalDataServer",
        ep |-> [ str |-> TRUE, val |-> <<"u", "/">> ] ],
      [ dict |-> TRUE, id |-> <<>>, type |-> "Other",
        ep |-> [ str |-> TRUE, val |-> <<"u">> ] ],
      NonDictEntry }

\* lines 147, 179: a retrieved document is a non-empty mapping, None is falsy
Truthy(doc) == doc.some

\* line 149: did_doc.get("service") or did_doc.get("services") or []
ServicesOf(doc) == IF doc.service # <<>> THEN doc.service ELSE doc.services

\* line 153
Matches(svc) == EndsWith(svc.id, <<"#atproto_pds">>) \/ svc.type = "AtprotoPersonalDataServer"

\* line 155
Usable(ep) == ep.str /\ ep.val # <<>>

\* lines 150-157: the loop over the service list from entry i on.
\* The result is [raised, val]: svc.get on an entry that is no mapping raises
\* AttributeError; val is the returned string, <<>> for None.
RECURSIVE ScanServices(_, _)
ScanServices(services, i) ==
    IF i > Len(services) THEN [ raised |-> FALSE, val |-> <<>> ]
    ELSE LET svc == services[i] IN
         IF ~svc.dict THEN [ raised |-> TRUE, val |-> <<>> ]
         ELSE IF Matches(svc) /\ Usable(svc.ep)
              THEN [ raised |-> FALSE, val |-> RStrip(svc.ep.val) ]
              ELSE ScanServices(services, i + 1)

get_pds_endpoint_from_did_doc(doc) ==
    IF ~Truthy(doc) THEN [ raised |-> FALSE, val |-> <<>> ]
    ELSE ScanServices(ServicesOf(doc), 1)

\* lines 122, 127: did.startswith("did:plc:") / did.startswith("did:web:")
Fetchable(did) == Len(did) >= 2 /\ did[1] = "did" /\ did[2] \in { "plc", "web" }

\* ------------------------------------------------------------------- Init
LocalsInit ==
    /\ repo_did = <<>>
    /\ did_doc = NoDoc
    /\ pds_endpoint = <<>>
    /\ client = "none"
    /\ cursor = 0
    /\ posts_fetched = 0
    /\ all_posts = <<>>
    /\ written = FALSE
    /\ archive = <<>>
    /\ hist = <<>>
    /\ switches = 0
    /\ resolves = 0
    /\ docFetches = 0
    /\ token_count = -1
    /\ posts_to_keep = 0
    /\ trimmed = [ written |-> FALSE, content |-> <<>> ]
    /\ final = "none"
    /\ choice = ""

Init ==
    /\ pc = "main"
    /\ argc \in BOOLEAN
    /\ call = 0
    /\ nwrites = 0
    /\ LocalsInit

\* ------------------------------------------------------------ the records
\* the first n records of the page requested with cursor c, created at t
Records(c, n, t) == [ i \in 1..n |-> [ uri |-> << c, i >>, created_at |-> t ] ]

\* responses so far that carried a cursor
RECURSIVE WithCursor(_)
WithCursor(h) ==
    IF h = <<>> THEN 0
    ELSE WithCursor(SubSeq(h, 1, Len(h) - 1))
         + (IF Last(h).kind = "page" /\ Last(h).ret # 0 THEN 1 ELSE 0)

\* the server holds at most MaxPages pages: the last of them carries no cursor
MayCarryCursor(h) == WithCursor(h) + 1 < MaxPages

\* the posts of s created at t, in the order of s
CreatedAt(s, t) == SelectSeq(s, LAMBDA x : x.created_at = t)

\* the posts of s created at t or before, newest first, each created_at in
\* the order of s
RECURSIVE NewestFirstFrom(_, _)
NewestFirstFrom(s, t) ==
    IF t \notin Times THEN <<>>
    ELSE CreatedAt(s, t) \o NewestFirstFrom(s, t - 1)

\* line 269: list.sort(key=created_at, reverse=True), a stable sort
SortDesc(s) == NewestFirstFrom(s, CHOOSE t \in Times : \A u \in Times : u <= t)

\* ---------------------------------------------------------------- actions
\* lines 289-300: the entry point
Main ==
    /\ pc = "main"
    /\ IF argc
       THEN pc' = "resolve" /\ call' = 1
       ELSE pc' = "exit1" /\ call' = call
    /\ UNCHANGED << argc, repo_did, did_doc, pds_endpoint, client, cursor,
                    posts_fetched, all_posts, written, archive, hist, switches,
                    resolves, docFetches, token_count, posts_to_keep, trimmed,
                    final, choice, nwrites >>

\* a resolver that tries again after a failure
AfterResolveError_Retry == "resolve"

\* lines 171-174: where a failed resolution goes
AfterResolveError == "exit1"

\* lines 163-174: resolve the handle
Resolve ==
    /\ pc = "resolve"
    /\ resolves' = resolves + 1
    /\ \/ \E d \in DIDs : repo_did' = d /\ pc' = "discover"
       \/ repo_did' = repo_did /\ pc' = AfterResolveError
    /\ UNCHANGED << argc, call, did_doc, pds_endpoint, client, cursor,
                    posts_fetched, all_posts, written, archive, hist, switches,
                    docFetches, token_count, posts_to_keep, trimmed, final, choice,
                    nwrites >>

\* lines 178, 121-139: fetch_did_document. A network or HTTP error gives None,
\* as does a DID that is neither did:plc nor did:web (no request is made).
\* A retrieved document has up to n service entries drawn from E, under one
\* of the keys K.
FetchDoc(E, n, K) ==
    /\ pc = "discover"
    /\ IF Fetchable(repo_did)
       THEN /\ docFetches' = docFetches + 1
            /\ \/ did_doc' = NoDoc
               \/ \E k \in 0..n, key \in K :
                    \E l \in [ 1..k -> E ] : did_doc' = Doc(key, l)
       ELSE /\ docFetches' = docFetches
            /\ did_doc' = NoDoc
    /\ pc' = "parse"
    /\ UNCHANGED << argc, call, repo_did, pds_endpoint, client, cursor,
                    posts_fetched, all_posts, written, archive, hist, switches,
                    resolves, token_count, posts_to_keep, trimmed, final, choice,
                    nwrites >>

\* lines 179-200: parse the document, choose the client, start the accumulation.
\* An exception of get_pds_endpoint_from_did_doc is caught nowhere.
SelectClient ==
    /\ pc = "parse"
    /\ LET r == IF Truthy(did_doc) THEN get_pds_endpoint_from_did_doc(did_doc)
                ELSE [ raised |-> FALSE, val |-> <<>> ]
       IN  IF r.raised
           THEN /\ pc' = "crash"
                /\ UNCHANGED << pds_endpoint, client >>
           ELSE /\ pds_endpoint' = r.val
                /\ client' = IF r.val # <<>> THEN "pds" ELSE "default"
                /\ pc' = "fetch"
    /\ all_posts' = <<>>
    /\ cursor' = 0
    /\ posts_fetched' = 0
    /\ UNCHANGED << argc, call, repo_did, did_doc, written, archive, hist,
                    switches, resolves, docFetches, token_count, posts_to_keep,
                    trimmed, final, choice, nwrites >>

\* a fallback test that forgets what the current client is
FallbackCond_Always(pe, cl) == TRUE

\* line 258
FallbackCond(pe, cl) == pe # <<>> /\ cl # "default"

\* a handler that retries where line 263 exits
ExceptHandler_Retries ==
    IF FallbackCond(pds_endpoint, client)
    THEN /\ client' = "default"
         /\ pds_endpoint' = <<>>
         /\ switches' = switches + 1
         /\ cursor' = cursor
         /\ pc' = "fetch"
    ELSE /\ pc' = "fetch"
         /\ UNCHANGED << client, pds_endpoint, switches, cursor >>

\* a handler that leaves out line 261
ExceptHandler_KeepsEndpoint ==
    IF FallbackCond(pds_endpoint, client)
    THEN /\ client' = "default"
         /\ pds_endpoint' = pds_endpoint
         /\ switches' = switches + 1
         /\ cursor' = cursor
         /\ pc' = "fetch"
    ELSE /\ pc' = "exit1"
         /\ UNCHANGED << client, pds_endpoint, switches, cursor >>

\* a handler whose fallback starts the pagination over
ExceptHandler_ResetsCursor ==
    IF FallbackCond(pds_endpoint, client)
    THEN /\ client' = "default"
         /\ pds_endpoint' = <<>>
         /\ switches' = switches + 1
         /\ cursor' = 0
         /\ pc' = "fetch"
    ELSE /\ pc' = "exit1"
         /\ UNCHANGED << client, pds_endpoint, switches, cursor >>

\* lines 255-263: the handler of every exception raised in the loop body
ExceptHandler ==
    IF FallbackCond(pds_endpoint, client)
    THEN /\ client' = "default"
         /\ pds_endpoint' = <<>>
         /\ switches' = switches + 1
         /\ cursor' = cursor
         /\ pc' = "fetch"
    ELSE /\ pc' = "exit1"
         /\ UNCHANGED << client, pds_endpoint, switches, cursor >>

\* lines 207-214: list_records raises
RequestError ==
    /\ pc = "fetch"
    /\ hist' = Append(hist, [ kind |-> "err", cl |-> client, sent |-> cursor,
                              n |-> 0, ret |-> 0 ])
    /\ ExceptHandler
    /\ UNCHANGED << argc, call, repo_did, did_doc, posts_fetched, all_posts,
                    written, archive, resolves, docFetches, token_count,
                    posts_to_keep, trimmed, final, choice, nwrites >>

\* a loop without the empty-page test of lines 216-227
NoRecordsYet_Never(n, pf) == FALSE

\* an empty-page test that leaves out line 218
NoRecordsYet_AnyTime(n, pf) == n = 0

\* lines 217-218: the response has no records and nothing was fetched before
NoRecordsYet(n, pf) == n = 0 /\ pf = 0

\* lines 207-253: a page response, processed to the end
PageResponse ==
    /\ pc = "fetch"
    /\ \E n \in 0..MaxRecs, nx \in { 0 } \cup Cursors :
        \E tm \in Times :
            /\ nx # 0 => MayCarryCursor(hist)
            /\ hist' = Append(hist, [ kind |-> "page", cl |-> client,
                                      sent |-> cursor, n |-> n, ret |-> nx ])
            /\ IF NoRecordsYet(n, posts_fetched)
               THEN /\ pc' = IF pds_endpoint # <<>> THEN "finish" ELSE "exit1"
                    /\ UNCHANGED << all_posts, posts_fetched, cursor >>
               ELSE /\ all_posts' = all_posts \o Records(cursor, n, tm)
                    /\ posts_fetched' = posts_fetched + n
                    /\ cursor' = nx
                    /\ pc' = IF nx = 0 THEN "finish" ELSE "fetch"
    /\ UNCHANGED << argc, call, repo_did, did_doc, pds_endpoint, client,
                    written, archive, switches, resolves, docFetches,
                    token_count, posts_to_keep, trimmed, final, choice, nwrites >>

\* lines 229-245, 255-263: normalizing record k+1 of a page of n raises, after
\* k records of the page were appended
NormalizeError ==
    /\ pc = "fetch"
    /\ \E n \in 1..MaxRecs :
        \E k \in 0..(n - 1) :
            \E tm \in Times :
                /\ hist' = Append(hist, [ kind |-> "nerr", cl |-> client,
                                          sent |-> cursor, n |-> n, ret |-> 0 ])
                /\ all_posts' = all_posts \o Records(cursor, k, tm)
    /\ ExceptHandler
    /\ UNCHANGED << argc, call, repo_did, did_doc, posts_fetched, written,
                    archive, resolves, docFetches, token_count, posts_to_keep,
                    trimmed, final, choice, nwrites >>

\* an empty-result test that never fires
EmptyResult_Never(posts) == FALSE

\* line 265
EmptyResult(posts) == posts = <<>>

\* a writer that loses the last accumulated post
ArchiveContent_Partial(posts) == SortDesc(SubSeq(posts, 1, Len(posts) - 1))

\* a sort that puts a post in front of the earlier arrivals of the same time
SortedPosFront(s, i) ==
    Cardinality({ j \in 1..Len(s) :
        \/ s[j].created_at > s[i].created_at
        \/ s[j].created_at = s[i].created_at /\ j >= i })

SortDescFront(s) ==
    [ k \in 1..Len(s) |-> s[CHOOSE i \in 1..Len(s) : SortedPosFront(s, i) = k] ]

\* a writer whose sort is not stable
ArchiveContent_Unstable(posts) == SortDescFront(posts)

\* lines 269-272: what goes into the output file
ArchiveContent(posts) == SortDesc(posts)

\* lines 265-276: after the loop
Finish ==
    /\ pc = "finish"
    /\ IF EmptyResult(all_posts)
       THEN /\ pc' = "exit1"
            /\ UNCHANGED << all_posts, written, archive, nwrites >>
       ELSE /\ all_posts' = SortDesc(all_posts)
            /\ archive' = ArchiveContent(all_posts)
            /\ written' = TRUE
            /\ nwrites' = nwrites + 1
            /\ pc' = "trim"
    /\ UNCHANGED << argc, call, repo_did, did_doc, pds_endpoint, client, cursor,
                    posts_fetched, hist, switches, resolves, docFetches,
                    token_count, posts_to_keep, trimmed, final, choice >>

\* a trimmer that leaves out the 10% buffer
PostsToRemove_NoBuffer(tc, n) == (tc - TOKEN_LIMIT) \div (tc \div n)

\* lines 56-58: int(excess_tokens / avg_tokens_per_post * 1.1). int() truncates;
\* the quotient is taken exactly (the float product agrees with it on the
\* token counts and archive sizes drawn here).
PostsToRemove(tc, n) == ((tc - TOKEN_LIMIT) * 11) \div ((tc \div n) * 10)

\* lines 43, 51: nothing to trim: no count, or a count within the limit
WithinLimit(tc) == tc = -1 \/ tc <= TOKEN_LIMIT

\* lines 30-66: check_token_limit_and_offer_trim up to the prompt, the
\* estimator answering with a count of T
EstimateTokens(T) ==
    /\ pc = "trim"
    /\ \E tc \in T :
        /\ token_count' = tc
        /\ IF WithinLimit(tc)
           THEN /\ final' = "full"
                /\ pc' = "returned"
                /\ posts_to_keep' = posts_to_keep
           ELSE IF tc \div Len(all_posts) = 0
           THEN /\ pc' = "crash"
                /\ UNCHANGED << final, posts_to_keep >>
           ELSE /\ posts_to_keep' = Len(all_posts) - PostsToRemove(tc, Len(all_posts))
                /\ pc' = "prompt"
                /\ final' = final
    /\ UNCHANGED << argc, call, repo_did, did_doc, pds_endpoint, client, cursor,
                    posts_fetched, all_posts, written, archive, hist, switches,
                    resolves, docFetches, trimmed, choice, nwrites >>

CheckTokens == EstimateTokens(TokenCounts)

\* a prompt that takes every answer but n/no for a yes
Confirms_Lenient(c) == c \notin { "n", "no" }

\* line 70
Confirms(c) == c \in { "y", "yes" }

\* line 72
Declines(c) == c \in { "n", "no" }

\* a trimmer that keeps the oldest posts
Slice_KeepsLast(s, k) ==
    IF k >= 0 THEN SubSeq(s, Len(s) - (IF k < Len(s) THEN k ELSE Len(s)) + 1, Len(s))
    ELSE SubSeq(s, 1, IF Len(s) + k > 0 THEN Len(s) + k ELSE 0)

\* line 85: all_posts[:k]; a negative k counts from the end
Slice(s, k) ==
    IF k >= 0 THEN SubSeq(s, 1, IF k < Len(s) THEN k ELSE Len(s))
    ELSE SubSeq(s, 1, IF Len(s) + k > 0 THEN Len(s) + k ELSE 0)

\* lines 68-76 and 78-112: one answer at the prompt; on y/yes
\* trim_posts_and_reexport writes the trimmed file
Prompt ==
    /\ pc = "prompt"
    /\ \E c \in Choices :
        /\ choice' = c
        /\ IF Confirms(c)
           THEN /\ trimmed' = [ written |-> TRUE, content |-> Slice(all_posts, posts_to_keep) ]
                /\ final' = "trimmed"
                /\ pc' = "returned"
           ELSE IF Declines(c)
           THEN /\ final' = "full"
                /\ pc' = "returned"
                /\ trimmed' = trimmed
           ELSE UNCHANGED << pc, final, trimmed >>
    /\ UNCHANGED << argc, call, repo_did, did_doc, pds_endpoint, client, cursor,
                    posts_fetched, all_posts, written, archive, hist, switches,
                    resolves, docFetches, token_count, posts_to_keep, nwrites >>

\* lines 286, 300-307: export_posts_to_json returns; the entry point calls it a
\* second time (line 303) and the script ends after that call
Return ==
    /\ pc = "returned"
    /\ IF call = 1
       THEN /\ call' = 2
            /\ pc' = "resolve"
            /\ repo_did' = <<>>
            /\ did_doc' = NoDoc
            /\ pds_endpoint' = <<>>
            /\ client' = "none"
            /\ cursor' = 0
            /\ posts_fetched' = 0
            /\ all_posts' = <<>>
            /\ written' = FALSE
            /\ archive' = <<>>
            /\ hist' = <<>>
            /\ switches' = 0
            /\ resolves' = 0
            /\ docFetches' = 0
            /\ token_count' = -1
            /\ posts_to_keep' = 0
            /\ trimmed' = [ written |-> FALSE, content |-> <<>> ]
            /\ final' = "none"
            /\ choice' = ""
       ELSE /\ pc' = "exit0"
            /\ UNCHANGED << call, repo_did, did_doc, pds_endpoint, client, cursor,
                            posts_fetched, all_posts, written, archive, hist,
                            switches, resolves, docFetches, token_count,
                            posts_to_keep, trimmed, final, choice >>
    /\ UNCHANGED << argc, nwrites >>

\* ---------------------------------------------------------- specifications
Discover == FetchDoc(SomeEntries, 1, { "service" })

Next ==
    \/ Main
    \/ Resolve
    \/ Discover
    \/ SelectClient
    \/ RequestError
    \/ PageResponse
    \/ NormalizeError
    \/ Finish
    \/ CheckTokens
    \/ Prompt
    \/ Return

Spec == Init /\ [][Next]_vars

\* The Endpoint Discoverer alone, over every document of the bounded domain:
\* it starts with a resolved DID and applies fetch_did_document and
\* get_pds_endpoint_from_did_doc.
InitDisc ==
    /\ pc = "discover"
    /\ argc = TRUE
    /\ call = 1
    /\ nwrites = 0
    /\ repo_did \in DIDs
    /\ did_doc = NoDoc
    /\ pds_endpoint = <<>>
    /\ client = "none"
    /\ cursor = 0
    /\ posts_fetched = 0
    /\ all_posts = <<>>
    /\ written = FALSE
    /\ archive = <<>>
    /\ hist = <<>>
    /\ switches = 0
    /\ resolves = 1
    /\ docFetches = 0
    /\ token_count = -1
    /\ posts_to_keep = 0
    /\ trimmed = [ written |-> FALSE, content |-> <<>> ]
    /\ final = "none"
    /\ choice = ""

DiscoverAll == FetchDoc(Entries, MaxServices, { "service", "services" })

NextDisc ==
    \/ DiscoverAll
    \/ SelectClient

SpecDisc == InitDisc /\ [][NextDisc]_vars

\* The Token Budget Trimmer alone: it starts where an export that received one
\* page from the default endpoint has just written its archive, and applies
\* check_token_limit_and_offer_trim to it. The posts of the page share their
\* created_at, so the stable sort left them as they arrived.
ArchiveSizes == (1..MaxPosts) \cup { 10000 }

InitTrim ==
    /\ pc = "trim"
    /\ argc = TRUE
    /\ call = 1
    /\ nwrites = 1
    /\ repo_did = <<"did", "key", "a">>
    /\ did_doc = NoDoc
    /\ pds_endpoint = <<>>
    /\ client = "default"
    /\ cursor = 0
    /\ \E n \in ArchiveSizes, tm \in Times :
        /\ posts_fetched = n
        /\ all_posts = Records(0, n, tm)
        /\ archive = Records(0, n, tm)
        /\ hist = << [ kind |-> "page", cl |-> "default", sent |-> 0, n |-> n, ret |-> 0 ] >>
    /\ written = TRUE
    /\ switches = 0
    /\ resolves = 1
    /\ docFetches = 0
    /\ token_count = -1
    /\ posts_to_keep = 0
    /\ trimmed = [ written |-> FALSE, content |-> <<>> ]
    /\ final = "none"
    /\ choice = ""

CheckTokensAll == EstimateTokens(TrimTokenCounts)

NextTrim ==
    \/ CheckTokensAll
    \/ Prompt

SpecTrim == InitTrim /\ [][NextTrim]_vars

\* The Paginated Fetcher alone: it starts where the first execution has chosen
\* its client, and runs the loop and the writer.
InitFetch ==
    /\ pc = "fetch"
    /\ argc = TRUE
    /\ call = 1
    /\ nwrites = 0
    /\ repo_did = <<"did", "plc", "a">>
    /\ \E d \in { NoDoc } \cup { Doc("service", << e >>) : e \in SomeEntries } :
        /\ did_doc = d
        /\ ~get_pds_endpoint_from_did_doc(d).raised
        /\ pds_endpoint = get_pds_endpoint_from_did_doc(d).val
        /\ client = IF pds_endpoint # <<>> THEN "pds" ELSE "default"
    /\ cursor = 0
    /\ posts_fetched = 0
    /\ all_posts = <<>>
    /\ written = FALSE
    /\ archive = <<>>
    /\ hist = <<>>
    /\ switches = 0
    /\ resolves = 1
    /\ docFetches = 1
    /\ token_count = -1
    /\ posts_to_keep = 0
    /\ trimmed = [ written |-> FALSE, content |-> <<>> ]
    /\ final = "none"
    /\ choice = ""

NextFetch ==
    \/ RequestError
    \/ PageResponse
    \/ NormalizeError
    \/ Finish

SpecFetch == InitFetch /\ [][NextFetch]_vars

\* The same under weak fairness: the script is one sequential process, a step
\* it can take is taken.
FairFetch == SpecFetch /\ WF_vars(NextFetch)

\* ------------------------------------------------------------------ claims
\* A run below is one execution of export_posts_to_json; hist, switches,
\* resolves, docFetches and written describe the execution in progress.

\* the step is a page request that raised (list_records, or normalizing a record)
ErrorStep == Len(hist') = Len(hist) + 1 /\ Last(hist').kind \in { "err", "nerr" }

\* the step is a page request whose list_records call raised
RequestErrorStep == Len(hist') = Len(hist) + 1 /\ Last(hist').kind = "err"

\* the step is a page response processed without an exception
ResponseStep == Len(hist') = Len(hist) + 1 /\ Last(hist').kind = "page"

\* the process has ended with status 1 and nothing follows
Fatal == pc = "exit1"

\* s and t hold the same elements, each as often
SamePosts(s, t) ==
    /\ Len(s) = Len(t)
    /\ \A i \in DOMAIN s :
        Cardinality({ j \in DOMAIN s : s[j] = s[i] })
            = Cardinality({ j \in DOMAIN t : t[j] = s[i] })

\* C1: the client is switched at most once per run, only from the discovered
\* endpoint's client to the default client, never from the default client and
\* never back.
C1_SwitchAtMostOnce ==
    [][ /\ switches' > switches =>
            /\ switches = 0
            /\ pds_endpoint # <<>>
            /\ client = "pds"
            /\ client' = "default"
        /\ (client # "none" /\ client' # "none" /\ client' # client) =>
            switches' = switches + 1
        /\ client = "default" => client' # "pds" ]_vars

\* C1 witness: the fallback was used and a later error ended the run
C1_Witness ==
    /\ Fatal
    /\ switches = 1
    /\ Len(hist) >= 2
    /\ Last(hist).kind = "err"
    /\ Last(hist).cl = "default"

\* the run so far: an endpoint was discovered, the first request on it raised,
\* every later request was answered by the default endpoint and processed, and
\* the answers held at least one record
RECURSIVE Received(_)
Received(h) ==
    IF h = <<>> THEN 0
    ELSE Received(SubSeq(h, 1, Len(h) - 1))
         + (IF Last(h).kind = "page" THEN Last(h).n ELSE 0)

FailedOnceThenServed ==
    /\ Len(hist) >= 2
    /\ hist[1].kind = "err"
    /\ hist[1].cl = "pds"
    /\ \A i \in 2..Len(hist) : hist[i].kind = "page" /\ hist[i].cl = "default"
    /\ Received(hist) >= 1

\* C2: when a discovered endpoint fails on the first request and the default
\* endpoint then answers every request, with at least one record in all, the
\* pagination ends in DONE with a non-empty sequence, the archive is written,
\* and exactly one fallback was performed.
C2_OneFallbackThenDone ==
    (FailedOnceThenServed /\ pc # "fetch") =>
        /\ switches = 1
        /\ pc \in { "finish", "trim", "prompt", "returned", "exit0" }
        /\ pc = "finish" => all_posts # <<>>
        /\ pc # "finish" => (written /\ archive # <<>>)

\* C2 witness: such a run after its archive was written, two pages long
C2_Witness ==
    /\ FailedOnceThenServed
    /\ Len(hist) = 3
    /\ written
    /\ pc = "trim"

\* C3: an exception in the loop while the client is the default one ends the
\* run with status 1: no request follows and no archive is written.
C3_ErrorOnDefaultIsFatal ==
    [][ /\ pc # "exit1"
        /\ (ErrorStep /\ client = "default") =>
            /\ pc' = "exit1"
            /\ ~written'
            /\ nwrites' = nwrites ]_vars

\* C3 witness: a request on the default client raised, no endpoint having
\* been discovered, after a page of records had been fetched
C3_Witness ==
    /\ Fatal
    /\ switches = 0
    /\ Len(hist) = 2
    /\ hist[1].kind = "page"
    /\ hist[1].cl = "default"
    /\ hist[2].kind = "err"
    /\ hist[2].cl = "default"

\* C4: the output file is written only after the loop has ended, with all the
\* accumulated posts, and a run that ends with status 1 has written no file.
C4_NoPartialArchive ==
    [][ /\ (written' /\ ~written) =>
            /\ pc = "finish"
            /\ hist # <<>>
            /\ Last(hist).kind = "page"
            /\ SamePosts(archive', all_posts)
        /\ written => (written' /\ archive' = archive) \/ (pc = "returned" /\ call' = 2)
        /\ pc' = "exit1" => (~written' /\ archive' = <<>> /\ nwrites' = nwrites) ]_vars

\* C4 witness: posts were accumulated and the run ended with status 1
C4_Witness ==
    /\ Fatal
    /\ Len(all_posts) >= 2
    /\ ~written

\* C5: a loop that ends with no accumulated post ends the run with status 1
\* without writing, and every written archive holds at least one post.
C5_EmptyResultIsFatal ==
    [][ /\ (pc = "finish" /\ all_posts = <<>>) =>
            /\ pc' = "exit1"
            /\ ~written'
            /\ nwrites' = nwrites
        /\ written' => Len(archive') >= 1 ]_vars

\* C5 witness: the discovered endpoint answered the first request with no
\* records, the loop ended, and the run ended with status 1
C5_Witness ==
    /\ Fatal
    /\ all_posts = <<>>
    /\ Len(hist) = 1
    /\ hist[1].kind = "page"
    /\ hist[1].cl = "pds"
    /\ hist[1].n = 0

\* C6: a response without records that arrives on the default client while
\* posts_fetched is 0 ends the run with status 1 at once: no request follows
\* and no archive is written.
C6_EmptyOnDefaultIsFatal ==
    [][ /\ pc # "exit1"
        /\ (ResponseStep /\ Last(hist').n = 0 /\ client = "default" /\ posts_fetched = 0) =>
            /\ pc' = "exit1"
            /\ ~written'
            /\ nwrites' = nwrites ]_vars

\* C6 witness: the empty response came after the fallback
C6_Witness ==
    /\ Fatal
    /\ switches = 1
    /\ posts_fetched = 0
    /\ Last(hist).kind = "page"
    /\ Last(hist).n = 0
    /\ Last(hist).cl = "default"

\* the cursor of the most recent processed response before request i, 0 if none
RECURSIVE LastReturned(_, _)
LastReturned(h, i) ==
    IF i <= 1 THEN 0
    ELSE IF h[i - 1].kind = "page" THEN h[i - 1].ret
    ELSE LastReturned(h, i - 1)

\* every request so far carried the cursor of the most recent processed
\* response, and none before the first
CursorProtocol == \A i \in DOMAIN hist : hist[i].sent = LastReturned(hist, i)

\* a failed request, with the fallback it may trigger, keeps the cursor and
\* the accumulated posts
ErrorKeepsState == RequestErrorStep => (cursor' = cursor /\ all_posts' = all_posts)

C8_ResolutionFailureIsFatal ==
    [][ /\ pc # "exit1"
        /\ (pc = "resolve" /\ repo_did' = <<>>) =>
            /\ pc' = "exit1"
            /\ resolves' = 1
            /\ docFetches' = 0
            /\ hist' = <<>>
            /\ ~written'
            /\ ~trimmed'.written
            /\ nwrites' = nwrites
        /\ (pc = "main" /\ ~argc) =>
            /\ pc' = "exit1"
            /\ resolves' = 0
            /\ nwrites' = 0 ]_vars

\* C8 witness: the resolver failed in the script's first execution
C8_Witness ==
    /\ Fatal
    /\ call = 1
    /\ resolves = 1
    /\ repo_did = <<>>
    /\ nwrites = 0

\* what C10 states the result to be: the stripped URL of the first matching
\* entry, nothing when that entry has no usable URL or no entry matches
RECURSIVE FirstMatchOnly(_, _)
FirstMatchOnly(services, i) ==
    IF i > Len(services) THEN <<>>
    ELSE IF services[i].dict /\ Matches(services[i])
         THEN IF Usable(services[i].ep) THEN RStrip(services[i].ep.val) ELSE <<>>
         ELSE FirstMatchOnly(services, i + 1)

\* C9: the discoverer never raises: whatever the fetch gave, the run goes on,
\* with the default client when no endpoint was found.
C9_DiscovererNeverRaises ==
    /\ pc # "crash"
    /\ (pc = "fetch" /\ pds_endpoint = <<>>) => client = "default"

\* C10: the result is decided by the first matching entry alone.
C10_FirstMatchingEntryOnly ==
    (pc = "fetch" /\ Truthy(did_doc)) =>
        pds_endpoint = FirstMatchOnly(ServicesOf(did_doc), 1)

\* s is ordered by created_at, newest first
NewestFirst(s) ==
    \A i \in 1..Len(s) : \A j \in i..Len(s) : s[i].created_at >= s[j].created_at

\* the step writes the full archive
WriteStep == pc = "finish" /\ written'

\* C11: the written archive holds the accumulated posts, each as often as it
\* was accumulated, ordered by created_at newest first, and posts of one
\* created_at keep their arrival order.
C11_StableNewestFirst ==
    [][WriteStep =>
        /\ SamePosts(archive', all_posts)
        /\ NewestFirst(archive')
        /\ \A t \in Times : CreatedAt(archive', t) = CreatedAt(all_posts, t)]_vars

\* C11 witness: an archive of two pages of two posts, the later page the newer
\* one: the sort moved it to the front and left each tie in arrival order
C11_Witness ==
    /\ written
    /\ Len(archive) = 4
    /\ archive[1].created_at = archive[2].created_at
    /\ archive[1].uri[1] # 0
    /\ archive[1].uri[2] < archive[2].uri[2]
    /\ archive[3].uri[1] = 0

\* s is a prefix of t
IsPrefix(s, t) == Len(s) <= Len(t) /\ s = SubSeq(t, 1, Len(s))

\* C12: whatever posts_to_keep was computed, a trimmed archive is a prefix of
\* the full newest-first archive.
C12_TrimmedIsPrefix ==
    trimmed.written => IsPrefix(trimmed.content, archive)

\* C12 witness: a trimmed file written from a negative posts_to_keep
C12_Witness ==
    /\ trimmed.written
    /\ posts_to_keep < 0
    /\ Len(trimmed.content) = Len(archive) + posts_to_keep
    /\ Len(trimmed.content) > 0

\* excess_tokens * 1.1 / avg_tokens_per_post, in tenths of avg_tokens_per_post,
\* less r: how far r is below the quotient
Below(r) ==
    (token_count - TOKEN_LIMIT) * 11 - r * (token_count \div Len(all_posts)) * 10

\* 1,000,000 tokens in 10,000 posts: 550 posts to go, 9,450 to stay
Example ==
    (Len(all_posts) = 10000 /\ token_count = 1000000) =>
        /\ Len(all_posts) - posts_to_keep = 550
        /\ posts_to_keep = 9450

C14_ExactlyToKeep ==
    trimmed.written =>
        /\ Len(trimmed.content) = posts_to_keep
        /\ trimmed.content = SubSeq(archive, 1, posts_to_keep)

\* C15: the trimmer returns the original file and writes no trimmed one when
\* the estimator gave no count, the count is within the limit, or the operator
\* declined; a trimmed file is written only for a count above the limit and an
\* answer y or yes; any other answer leaves the trimmer at the prompt; and no
\* outcome of the estimator ends the run in an error.
C15_TrimOnlyOnConfirmation ==
    /\ pc \in { "trim", "prompt", "returned" }
    /\ (pc # "trim" /\ (token_count = -1 \/ token_count <= TOKEN_LIMIT)) =>
        (pc = "returned" /\ final = "full" /\ ~trimmed.written /\ choice = "")
    /\ choice \in { "n", "no" } =>
        (pc = "returned" /\ final = "full" /\ ~trimmed.written)
    /\ trimmed.written <=> final = "trimmed"
    /\ trimmed.written =>
        (pc = "returned" /\ token_count > TOKEN_LIMIT /\ choice \in { "y", "yes" })
    /\ choice \notin { "", "y", "yes", "n", "no" } =>
        (pc = "prompt" /\ final = "none" /\ ~trimmed.written)

\* C15 witness: an answer that is neither yes nor no left the trimmer at the
\* prompt
C15_Witness ==
    /\ pc = "prompt"
    /\ choice = "maybe"
    /\ token_count > TOKEN_LIMIT
    /\ ~trimmed.written

\* C16 as stated: one invocation of the script resolves the handle once and
\* writes one full archive file when it succeeds.
C16_OncePerInvocation ==
    /\ ~(call = 2 /\ resolves > 0)
    /\ nwrites <= 1
    /\ pc = "exit0" => nwrites = 1

\* page requests that raised and were followed by another request
Retries(h) ==
    Cardinality({ i \in 1..(Len(h) - 1) : h[i].kind \in { "err", "nerr" } })

\* the execution has written its archive, or has ended the process with status 1
DoneOrFailed == (written /\ pc = "trim") \/ Fatal

\* C17: with finitely many pages, the last without a cursor, every execution
\* that starts fetching reaches DONE or FAILED, and at most one page request
\* that raised is followed by another request.
C17_FetcherTerminates ==
    /\ (pc = "fetch") ~> DoneOrFailed
    /\ [](Retries(hist) <= 1)

\* C17 witness: DONE after a raised request, its retry and a further page
C17_Witness ==
    /\ DoneOrFailed
    /\ written
    /\ Retries(hist) = 1
    /\ WithCursor(hist) >= 1

\* the step processes the first response of a discovered endpoint, an empty one
EmptyFirstPageStep ==
    /\ ResponseStep
    /\ client # "default"
    /\ hist = <<>>
    /\ Last(hist').n = 0

\* C18: an empty first page from a discovered endpoint ends the pagination at
\* once: the loop is left without a fallback, and no request follows.
C18_EmptyFirstPageStops ==
    [][/\ EmptyFirstPageStep =>
            (pc' = "finish" /\ switches' = 0 /\ client' = client /\ all_posts' = <<>>)
       /\ (pc = "finish" /\ hist' # <<>>) => hist' = hist]_vars

\* C18 witness: the loop was left on an empty first page that carried a cursor
C18_Witness ==
    /\ pc = "finish"
    /\ Len(hist) = 1
    /\ hist[1].kind = "page"
    /\ hist[1].cl # "default"
    /\ hist[1].n = 0
    /\ hist[1].ret # 0
    /\ switches = 0

\* C19 as stated: at every page request posts_fetched is the number of
\* accumulated posts, and no record is accumulated twice.
C19_NoRecordTwice ==
    /\ pc = "fetch" => posts_fetched = Len(all_posts)
    /\ \A i, j \in DOMAIN all_posts : all_posts[i].uri = all_posts[j].uri => i = j

\* C20 as stated: a trimmed archive holds at least one record and fewer
\* records than the full archive.
C20_TrimRemovesSomeKeepsSome ==
    trimmed.written =>
        /\ Len(trimmed.content) >= 1
        /\ Len(trimmed.content) < Len(archive)

====
